---------------------------- MODULE Spec2Model ----------------------------
(***************************************************************************)
(* A model of zk-disorder (src/src/lib.rs): the HLTM lane map, the         *)
(* permutation Phi, the duplex sponge FractSponge and the cut-and-choose   *)
(* trace proof ZKProof (prove / verify with its Merkle helpers).           *)
(*                                                                         *)
(* A u64 is a sequence of 8 bytes, least significant byte first, so that   *)
(* every operation wraps modulo 2^64 exactly as the Rust code does and no  *)
(* intermediate value leaves the range of the model checker's integers.    *)
(* The same byte order is the one bincode writes and from_le_bytes reads.  *)
(* Rust's zero-based positions i are the one-based positions i + 1 here.   *)
(***************************************************************************)
EXTENDS Integers, Sequences, FiniteSets, TLC

\* ------------------------------------------------------------- constants
STATE_SIZE == 4
ROUNDS == 8
TRACE_LEN == 16
\* derive_indices picks 4 indices (the literal in `for i in 0..4`).
NUM_CHALLENGES == 4
\* A u64 holds 8 bytes; a hash holds 32.
WORD_BYTES == 8
HASH_BYTES == 32

\* ------------------------------------------------------ bounds of the model
\* Lane inputs 0..MaxSmall and 2^63 .. 2^63 + MaxSmall are tried on hltm.
MaxSmall == 40
\* Generated (key, iv) pairs beside the fixed ones.
NumSeeds == 2
\* The largest number of entries a forger gives revealed_steps or merkle_proofs.
MaxCount == 5
\* Blocks one cipher encrypts.
MaxBlocks == 3

\* ------------------------------------------------------------ u64 words
Pow256(i) == IF i = 0 THEN 1 ELSE IF i = 1 THEN 256 ELSE IF i = 2 THEN 65536 ELSE 16777216

\* The 8 bytes of a u64 given as a function on 1..8, each computed once.
Word(f) == <<f[1], f[2], f[3], f[4], f[5], f[6], f[7], f[8]>>

\* The u64 whose value is the natural number n < 2^31.
ToWord(n) == Word([i \in 1..WORD_BYTES |-> IF i <= 4 THEN (n \div Pow256(i - 1)) % 256 ELSE 0])

\* The u64 2^64 - n for 1 <= n < 2^31, written byte by byte (the complement of n - 1).
NegWord(n) == Word([i \in 1..WORD_BYTES |-> 255 - ToWord(n - 1)[i]])

Zero == ToWord(0)
One == ToWord(1)
Four == ToWord(4)

\* A u64 from its 8 bytes, most significant first (as a hexadecimal literal reads).
Hex(b7, b6, b5, b4, b3, b2, b1, b0) == <<b0, b1, b2, b3, b4, b5, b6, b7>>

\* a < b on u64: decided at the most significant byte where they differ.
RECURSIVE LessFrom(_, _, _)
LessFrom(a, b, i) ==
    IF i = 0 THEN FALSE
    ELSE IF a[i] # b[i] THEN a[i] < b[i]
    ELSE LessFrom(a, b, i - 1)

WLess(a, b) == LessFrom(a, b, WORD_BYTES)

\* u64::wrapping_sub: byte-wise subtraction with borrow, the last borrow dropped.
RECURSIVE Borrow(_, _, _)
Borrow(a, b, i) ==
    IF i = 0 THEN 0
    ELSE IF a[i] - b[i] - Borrow(a, b, i - 1) < 0 THEN 1 ELSE 0

wrapping_sub(a, b) ==
    Word([i \in 1..WORD_BYTES |-> (a[i] - b[i] - Borrow(a, b, i - 1) + 256) % 256])

\* u64::wrapping_mul: schoolbook columns t1..t8 (column k sums the byte products of
\* weight 256^(k-1) and the carry of column k - 1); bytes past the 8th are dropped.
wrapping_mul(a, b) ==
    LET t1 == a[1] * b[1]
        t2 == a[1] * b[2] + a[2] * b[1] + (t1 \div 256)
        t3 == a[1] * b[3] + a[2] * b[2] + a[3] * b[1] + (t2 \div 256)
        t4 == a[1] * b[4] + a[2] * b[3] + a[3] * b[2] + a[4] * b[1] + (t3 \div 256)
        t5 == a[1] * b[5] + a[2] * b[4] + a[3] * b[3] + a[4] * b[2] + a[5] * b[1] + (t4 \div 256)
        t6 == a[1] * b[6] + a[2] * b[5] + a[3] * b[4] + a[4] * b[3] + a[5] * b[2] + a[6] * b[1] + (t5 \div 256)
        t7 == a[1] * b[7] + a[2] * b[6] + a[3] * b[5] + a[4] * b[4] + a[5] * b[3] + a[6] * b[2] + a[7] * b[1] + (t6 \div 256)
        t8 == a[1] * b[8] + a[2] * b[7] + a[3] * b[6] + a[4] * b[5] + a[5] * b[4] + a[6] * b[3] + a[7] * b[2] + a[8] * b[1] + (t7 \div 256)
    IN  <<t1 % 256, t2 % 256, t3 % 256, t4 % 256, t5 % 256, t6 % 256, t7 % 256, t8 % 256>>

\* Bitwise XOR of two bytes, from a table over nibbles.
RECURSIVE BitXor(_, _, _)
BitXor(a, b, n) ==
    IF n = 0 THEN 0
    ELSE ((a + b) % 2) + 2 * BitXor(a \div 2, b \div 2, n - 1)

NibbleXor == [a \in 0..15 |-> [b \in 0..15 |-> BitXor(a, b, 4)]]

ByteXor(a, b) == 16 * NibbleXor[a \div 16][b \div 16] + NibbleXor[a % 16][b % 16]

WXor(a, b) == Word([i \in 1..WORD_BYTES |-> ByteXor(a[i], b[i])])

Pow2(s) == IF s = 0 THEN 1 ELSE IF s = 1 THEN 2 ELSE IF s = 2 THEN 4 ELSE IF s = 3 THEN 8
           ELSE IF s = 4 THEN 16 ELSE IF s = 5 THEN 32 ELSE IF s = 6 THEN 64 ELSE IF s = 7 THEN 128
           ELSE 256

\* Byte position p (zero-based, any integer) of w, taken cyclically.
CycByte(w, p) == w[(p % WORD_BYTES) + 1]

\* u64::rotate_left(r): bit j of w moves to bit (j + r) mod 64.
rotate_left(w, r) ==
    LET q == r \div 8
        s == r % 8
    IN  Word([i \in 1..WORD_BYTES |->
            ((CycByte(w, i - 1 - q) * Pow2(s)) % 256)
            + (CycByte(w, i - 2 - q) \div Pow2(8 - s))])

\* u64::rotate_right(r): bit j of w moves to bit (j - r) mod 64.
rotate_right(w, r) ==
    LET q == r \div 8
        s == r % 8
    IN  Word([i \in 1..WORD_BYTES |->
            (CycByte(w, i - 1 + q) \div Pow2(s))
            + ((CycByte(w, i + q) * Pow2(8 - s)) % 256)])

\* ------------------------------------------------- State::hltm, apply_phi
\* const BOUNDARY: u64 = 1 << 63
BOUNDARY == Hex(128, 0, 0, 0, 0, 0, 0, 0)

\* The lower branch with the factor (0 - x) in place of (1 - x).
hltm_negated(x) ==
    IF WLess(x, BOUNDARY)
    THEN wrapping_mul(wrapping_mul(x, Four), wrapping_sub(Zero, x))
    ELSE wrapping_mul(wrapping_mul(wrapping_sub(Zero, x), Four), wrapping_sub(x, BOUNDARY))

hltm(x) ==
    IF WLess(x, BOUNDARY)
    THEN wrapping_mul(wrapping_mul(x, Four), wrapping_sub(One, x))
    ELSE LET term1 == wrapping_sub(Zero, x)
             term2 == wrapping_sub(x, BOUNDARY)
         IN  wrapping_mul(wrapping_mul(term1, Four), term2)

\* A State is the 4-tuple of its lanes: st[i + 1] is s[i].
XorLanes(a, b, c) == WXor(WXor(a, b), c)

\* Phi with the lattice coupling taken from the mapped lanes f_i instead of the
\* raw lanes s_i: a change of a lane that hltm does not see is then lost.
apply_phi_mapped(st) ==
    LET f0 == hltm(st[1])
        f1 == hltm(st[2])
        f2 == hltm(st[3])
        f3 == hltm(st[4])
    IN  << XorLanes(f0, rotate_right(f1, 31), rotate_left(f3, 17)),
           XorLanes(f1, rotate_right(f2, 23), rotate_left(f0, 11)),
           XorLanes(f2, rotate_right(f3, 47), rotate_left(f1, 29)),
           XorLanes(f3, rotate_right(f0, 13), rotate_left(f2, 5)) >>

apply_phi(st) ==
    LET s0 == st[1]
        s1 == st[2]
        s2 == st[3]
        s3 == st[4]
        f0 == hltm(s0)
        f1 == hltm(s1)
        f2 == hltm(s2)
        f3 == hltm(s3)
    IN  << XorLanes(f0, rotate_right(s1, 31), rotate_left(s3, 17)),
           XorLanes(f1, rotate_right(s2, 23), rotate_left(s0, 11)),
           XorLanes(f2, rotate_right(s3, 47), rotate_left(s1, 29)),
           XorLanes(f3, rotate_right(s0, 13), rotate_left(s2, 5)) >>


\* --------------------------------------------------------- FractSponge
\* FractSponge::new: capacity = key, rate = iv.
FractSponge_new(key, iv) == <<iv[1], iv[2], key[1], key[2]>>

\* The `for _ in 0..ROUNDS` loop of encrypt: n more rounds of apply_phi.
RECURSIVE Permute(_, _)
Permute(st, n) ==
    IF n = 0 \/ Len(st) # STATE_SIZE THEN st ELSE Permute(apply_phi(st), n - 1)

\* FractSponge::encrypt, the state it leaves: absorb into s[0], then ROUNDS rounds.
encrypt_state(st, plaintext) ==
    Permute(<<WXor(st[1], plaintext), st[2], st[3], st[4]>>, ROUNDS)

\* FractSponge::encrypt, the value it returns: s[0] of the state it leaves.
encrypt_output(st, plaintext) == encrypt_state(st, plaintext)[1]

\* ------------------------------------------------ the hash and bincode
\* Fract::hash comes from the external crate `fract`, which is not part of the
\* repository: any fixed function from byte strings to 32 bytes.  It is modelled
\* by one concrete such function, computed the same way wherever the code calls
\* Fract::hash: two polynomial folds of the input, taken 8 bytes at a time, and
\* 32 output bytes mixed from the two folded values.
HashPrimeA == 32749
HashPrimeB == 32719

\* Byte i of the g-th group of 8 input bytes (0 past the end of the input).
GroupByte(bytes, g, i) ==
    IF (g - 1) * 8 + i <= Len(bytes) THEN bytes[(g - 1) * 8 + i] ELSE 0

GroupSumA(bytes, g) ==
    (GroupByte(bytes, g, 1) + 1) * 1 + (GroupByte(bytes, g, 2) + 1) * 263
    + (GroupByte(bytes, g, 3) + 1) * 3671 + (GroupByte(bytes, g, 4) + 1) * 15809
    + (GroupByte(bytes, g, 5) + 1) * 31511 + (GroupByte(bytes, g, 6) + 1) * 1999
    + (GroupByte(bytes, g, 7) + 1) * 17393 + (GroupByte(bytes, g, 8) + 1) * 22409

GroupSumB(bytes, g) ==
    (GroupByte(bytes, g, 1) + 1) * 30011 + (GroupByte(bytes, g, 2) + 1) * 7
    + (GroupByte(bytes, g, 3) + 1) * 12161 + (GroupByte(bytes, g, 4) + 1) * 523
    + (GroupByte(bytes, g, 5) + 1) * 27011 + (GroupByte(bytes, g, 6) + 1) * 9467
    + (GroupByte(bytes, g, 7) + 1) * 61 + (GroupByte(bytes, g, 8) + 1) * 20477

RECURSIVE HashFoldA(_, _)
HashFoldA(bytes, g) ==
    IF g = 0 THEN (5381 + Len(bytes)) % HashPrimeA
    ELSE (HashFoldA(bytes, g - 1) * 29873 + GroupSumA(bytes, g)) % HashPrimeA

RECURSIVE HashFoldB(_, _)
HashFoldB(bytes, g) ==
    IF g = 0 THEN (977 + 3 * Len(bytes)) % HashPrimeB
    ELSE (HashFoldB(bytes, g - 1) * 18713 + GroupSumB(bytes, g)) % HashPrimeB

HashByte(a, b, k) ==
    ((((a + 977 * k) % HashPrimeA) * (((b + 31 * k) % HashPrimeB) + 1)) \div 8
     + ((a + 1) * (k + 1)) + b \div 128) % 256

HashWord(a, b, j) ==
    << HashByte(a, b, 8 * j + 1), HashByte(a, b, 8 * j + 2), HashByte(a, b, 8 * j + 3),
       HashByte(a, b, 8 * j + 4), HashByte(a, b, 8 * j + 5), HashByte(a, b, 8 * j + 6),
       HashByte(a, b, 8 * j + 7), HashByte(a, b, 8 * j + 8) >>

HashOut(a, b) == HashWord(a, b, 0) \o HashWord(a, b, 1) \o HashWord(a, b, 2) \o HashWord(a, b, 3)

Fract_hash(bytes) ==
    HashOut(HashFoldA(bytes, (Len(bytes) + 7) \div 8), HashFoldB(bytes, (Len(bytes) + 7) \div 8))

\* bincode::serialize(&State): the four lanes in order, each as 8 little-endian
\* bytes; a fixed-size array carries no length prefix.
serialize(st) == st[1] \o st[2] \o st[3] \o st[4]

\* --------------------------------------------------------- Merkle helpers
\* The sequence <<f[1], ..., f[n]>>, each entry computed once.
RECURSIVE SeqOf(_, _)
SeqOf(f, n) == IF n = 0 THEN <<>> ELSE Append(SeqOf(f, n - 1), f[n])

\* One pass of the loop over leaves.chunks(2): a full chunk is hashed, a last
\* chunk of one node is pushed as it is.
next_level(leaves) ==
    SeqOf([c \in 1..((Len(leaves) + 1) \div 2) |->
              IF 2 * c <= Len(leaves)
              THEN Fract_hash(leaves[2 * c - 1] \o leaves[2 * c])
              ELSE leaves[2 * c - 1]],
          (Len(leaves) + 1) \div 2)

RECURSIVE build_merkle_root(_)
build_merkle_root(leaves) ==
    IF Len(leaves) = 1 THEN leaves[1] ELSE build_merkle_root(next_level(leaves))

\* The levels build_merkle_root goes through, the leaves first, the root last.
RECURSIVE merkle_levels(_)
merkle_levels(leaves) ==
    IF Len(leaves) = 1 THEN <<leaves>> ELSE <<leaves>> \o merkle_levels(next_level(leaves))

\* generate_merkle_proof: the placeholder `vec![]`.
generate_merkle_proof(leaves, target_idx) == <<>>

\* verify_merkle_proof: the placeholder `true`.
verify_merkle_proof(root, leaf, proof, idx, size) == TRUE

\* (val as usize) % limit for the u64 val, by Horner's rule from the top byte.
RECURSIVE WModFrom(_, _, _)
WModFrom(w, limit, i) ==
    IF i > WORD_BYTES THEN 0
    ELSE (WModFrom(w, limit, i + 1) * 256 + w[i]) % limit

\* derive_indices: word i of the hash, little-endian, reduced modulo limit.
derive_indices(hash, limit) ==
    SeqOf([i \in 1..NUM_CHALLENGES |->
              WModFrom(SubSeq(hash, (i - 1) * WORD_BYTES + 1, i * WORD_BYTES), limit, 1)],
          NUM_CHALLENGES)

\* ------------------------------------------------------------- ZKProof
\* Step 1 of prove: push the current state, then TRACE_LEN times apply_phi and push.
RECURSIVE extend_trace(_)
extend_trace(trace) ==
    IF Len(trace) > TRACE_LEN THEN trace
    ELSE extend_trace(Append(trace, apply_phi(trace[Len(trace)])))

generate_trace(initial_state) == extend_trace(<<initial_state>>)

\* Step 2 of prove: one leaf per trace entry, the hash of its serialisation.
trace_leaves(trace) ==
    SeqOf([i \in 1..Len(trace) |-> Fract_hash(serialize(trace[i]))], Len(trace))

\* Steps 3 and 4 of prove, from the trace and its leaves.  A revealed step is
\* <<idx, trace[idx], trace[idx + 1]>> with the code's zero-based idx.
assemble_proof(trace, leaves, post_offset) ==
    LET root == build_merkle_root(leaves)
        challenge_indices == derive_indices(Fract_hash(root), TRACE_LEN)
    IN  [ merkle_root |-> root,
          revealed_steps |->
              SeqOf([j \in 1..Len(challenge_indices) |->
                        << challenge_indices[j],
                           trace[challenge_indices[j] + 1],
                           trace[challenge_indices[j] + 1 + post_offset] >>],
                    Len(challenge_indices)),
          merkle_proofs |->
              SeqOf([j \in 1..Len(challenge_indices) |->
                        generate_merkle_proof(leaves, challenge_indices[j])],
                    Len(challenge_indices)) ]

\* A prover that reveals trace[idx] twice instead of trace[idx] and trace[idx + 1].
prove_stale_post(initial_state) ==
    LET trace == generate_trace(initial_state)
    IN  assemble_proof(trace, trace_leaves(trace), 0)

\* ZKProof::prove
prove(initial_state) ==
    LET trace == generate_trace(initial_state)
    IN  assemble_proof(trace, trace_leaves(trace), 1)

\* The loop of verify from entry i on.  "panic" is the index-out-of-bounds abort
\* of `self.merkle_proofs[i]`, which is evaluated before verify_merkle_proof is
\* called.
RECURSIVE verify_from(_, _, _)
verify_from(proof, challenge_indices, i) ==
    IF i > Len(proof.revealed_steps) THEN "true"
    ELSE LET idx == proof.revealed_steps[i][1]
             s_curr == proof.revealed_steps[i][2]
             s_next == proof.revealed_steps[i][3]
         IN  IF idx # challenge_indices[i] THEN "false"
             ELSE IF apply_phi(s_curr) # s_next THEN "false"
             ELSE IF i > Len(proof.merkle_proofs) THEN "panic"
             ELSE IF ~verify_merkle_proof(proof.merkle_root,
                                          Fract_hash(serialize(s_curr)),
                                          proof.merkle_proofs[i], idx, TRACE_LEN + 1)
                  THEN "false"
             ELSE verify_from(proof, challenge_indices, i + 1)

\* ZKProof::verify: "true" and "false" are the values it returns.
verify(proof) ==
    LET challenge_indices == derive_indices(Fract_hash(proof.merkle_root), TRACE_LEN)
    IN  IF Len(proof.revealed_steps) # Len(challenge_indices) THEN "false"
        ELSE verify_from(proof, challenge_indices, 1)


\* ------------------------------------------------------------ the inputs
\* key and iv of src/bin/test.rs.
TestKey == << Hex(222, 173, 190, 239, 202, 254, 186, 190), Hex(18, 52, 86, 120, 154, 188, 222, 240) >>
TestIv == << Hex(17, 17, 17, 17, 17, 17, 17, 17), Hex(34, 34, 34, 34, 34, 34, 34, 34) >>
\* plaintext of src/bin/test.rs.
TestPlaintext == Hex(170, 187, 204, 221, 238, 255, 0, 17)

\* The k-th generated word of kind j: bytes spread over the whole range.
GenWord(k, j) ==
    Word([i \in 1..WORD_BYTES |-> (k * 37 + j * 101 + i * 53 + k * i * j * 7) % 256])

\* A seed is <<key, iv>>.
Seeds ==
    { <<TestKey, TestIv>>, << <<Zero, Zero>>, <<Zero, Zero>> >> }
    \cup { << <<GenWord(k, 1), GenWord(k, 2)>>, <<GenWord(k, 3), GenWord(k, 4)>> >> : k \in 1..NumSeeds }

\* State::new([iv[0], iv[1], key[0], key[1]]), as src/bin/test.rs seeds the prover.
State_new(seed) == <<seed[2][1], seed[2][2], seed[1][1], seed[1][2]>>

PlainWords == {Zero, One, TestPlaintext}

\* 2^63 + k
BoundaryPlus(k) == <<ToWord(k)[1], ToWord(k)[2], ToWord(k)[3], ToWord(k)[4], 0, 0, 0, 128>>

LaneInputs == { ToWord(k) : k \in 0..MaxSmall } \cup { BoundaryPlus(k) : k \in 0..MaxSmall }

\* Two states that differ in bit 63 of every lane, and in nothing else.
TwinLow ==
    << Hex(63, 255, 255, 255, 192, 0, 64, 0), Hex(63, 255, 255, 192, 0, 0, 1, 0),
       Hex(0, 0, 0, 0, 4, 0, 64, 0), Hex(63, 255, 0, 0, 0, 0, 0, 4) >>
TwinHigh ==
    << Hex(191, 255, 255, 255, 192, 0, 64, 0), Hex(191, 255, 255, 192, 0, 0, 1, 0),
       Hex(128, 0, 0, 0, 4, 0, 64, 0), Hex(191, 255, 0, 0, 0, 0, 0, 4) >>

PhiInputs ==
    { TwinLow, TwinHigh, <<Zero, Zero, Zero, Zero>>, <<One, Zero, Zero, Zero>>,
      <<BOUNDARY, BOUNDARY, BOUNDARY, BOUNDARY>> }
    \cup { State_new(seed) : seed \in Seeds }
    \cup { apply_phi(State_new(seed)) : seed \in Seeds }

\* ------------------------------------------------------------- the state
VARIABLES
    seed,          \* the <<key, iv>> the caller holds
    proof,         \* the ZKProof value at hand (NoProof before prove)
    edits,         \* what a forger has changed in it: a subset of {"shape", "content"}
    verdict,       \* what verify did with it: "none" (not called), "true", "false", "panic"
    sponge,        \* FractSponge.state (NoState before FractSponge::new)
    plaintexts,    \* the plaintexts encrypt was called with, in order
    ciphertext,    \* what the last encrypt call returned
    lane_in,       \* an input of hltm
    lane_out,      \* hltm of it
    phi_in,        \* a pair of states
    phi_out        \* apply_phi of each

vars == << seed, proof, edits, verdict, sponge, plaintexts, ciphertext,
           lane_in, lane_out, phi_in, phi_out >>

proofVars == << proof, edits, verdict >>
spongeVars == << sponge, plaintexts, ciphertext >>
laneVars == << lane_in, lane_out >>
phiVars == << phi_in, phi_out >>

NoProof == [merkle_root |-> <<>>, revealed_steps |-> <<>>, merkle_proofs |-> <<>>]
NoState == <<>>
NoWord == <<>>
ZeroState == <<Zero, Zero, Zero, Zero>>
ZeroHash == [i \in 1..HASH_BYTES |-> 0]

NoProofYet == proof = NoProof /\ edits = {} /\ verdict = "none"
NoSpongeYet == sponge = NoState /\ plaintexts = <<>> /\ ciphertext = NoWord
NoLane == lane_in = NoWord /\ lane_out = NoWord
NoPhi == phi_in = <<>> /\ phi_out = <<>>

\* ------------------------------------------------- prove, verify, forgery
\* The caller runs ZKProof::prove on State::new of its seed.
Prove ==
    /\ proof = NoProof
    /\ proof' = prove(State_new(seed))
    /\ UNCHANGED << seed, edits, verdict, spongeVars, laneVars, phiVars >>

\* ZKProof::verify on the proof at hand.
Verify ==
    /\ proof # NoProof
    /\ verdict = "none"
    /\ verdict' = verify(proof)
    /\ UNCHANGED << seed, proof, edits, spongeVars, laneVars, phiVars >>

\* Every field of ZKProof is pub and the type derives Deserialize: whoever hands a
\* proof to verify chooses each field.  A forger starts from the prover's proof and
\* changes the number of entries of one list at most once, and the content of one
\* field at most once.
CanEdit(kind) == proof # NoProof /\ verdict = "none" /\ kind \notin edits

Resize(list, n, filler) == [i \in 1..n |-> IF i <= Len(list) THEN list[i] ELSE filler]

SetRevealedCount ==
    /\ CanEdit("shape")
    /\ \E n \in 0..MaxCount :
          /\ n # Len(proof.revealed_steps)
          /\ proof' = [proof EXCEPT !.revealed_steps = Resize(@, n, <<0, ZeroState, ZeroState>>)]
    /\ edits' = edits \cup {"shape"}
    /\ UNCHANGED << seed, verdict, spongeVars, laneVars, phiVars >>

SetPathCount ==
    /\ CanEdit("shape")
    /\ \E n \in 0..MaxCount :
          /\ n # Len(proof.merkle_proofs)
          /\ proof' = [proof EXCEPT !.merkle_proofs = Resize(@, n, <<>>)]
    /\ edits' = edits \cup {"shape"}
    /\ UNCHANGED << seed, verdict, spongeVars, laneVars, phiVars >>

\* revealed[j].idx becomes (idx + 1) mod TRACE_LEN.
SetIdx ==
    /\ CanEdit("content")
    /\ \E j \in 1..Len(proof.revealed_steps) :
          proof' = [proof EXCEPT !.revealed_steps[j][1] = (@ + 1) % TRACE_LEN]
    /\ edits' = edits \cup {"content"}
    /\ UNCHANGED << seed, verdict, spongeVars, laneVars, phiVars >>

\* Lane 0 of revealed[j].pre is XOR-ed with 1.
FlipPre ==
    /\ CanEdit("content")
    /\ \E j \in 1..Len(proof.revealed_steps) :
          proof' = [proof EXCEPT !.revealed_steps[j][2][1] = WXor(@, One)]
    /\ edits' = edits \cup {"content"}
    /\ UNCHANGED << seed, verdict, spongeVars, laneVars, phiVars >>

\* Lane 0 of revealed[j].post is XOR-ed with 1.
FlipPost ==
    /\ CanEdit("content")
    /\ \E j \in 1..Len(proof.revealed_steps) :
          proof' = [proof EXCEPT !.revealed_steps[j][3][1] = WXor(@, One)]
    /\ edits' = edits \cup {"content"}
    /\ UNCHANGED << seed, verdict, spongeVars, laneVars, phiVars >>

\* The lowest bit of the first byte of merkle_root is flipped.
FlipRoot ==
    /\ CanEdit("content")
    /\ proof' = [proof EXCEPT !.merkle_root[1] = ByteXor(@, 1)]
    /\ edits' = edits \cup {"content"}
    /\ UNCHANGED << seed, verdict, spongeVars, laneVars, phiVars >>

\* A sibling of 32 zero bytes is appended to merkle_proofs[j].
PushSibling ==
    /\ CanEdit("content")
    /\ \E j \in 1..Len(proof.merkle_proofs) :
          proof' = [proof EXCEPT !.merkle_proofs[j] = Append(@, ZeroHash)]
    /\ edits' = edits \cup {"content"}
    /\ UNCHANGED << seed, verdict, spongeVars, laneVars, phiVars >>

Init ==
    /\ seed \in Seeds
    /\ NoProofYet
    /\ NoSpongeYet
    /\ NoLane
    /\ NoPhi

Next ==
    \/ Prove
    \/ Verify
    \/ SetRevealedCount
    \/ SetPathCount
    \/ SetIdx
    \/ FlipPre
    \/ FlipPost
    \/ FlipRoot
    \/ PushSibling

Spec == Init /\ [][Next]_vars

\* ----------------------------------------------------------- the sponge
SpongeNew ==
    /\ sponge = NoState
    /\ sponge' = FractSponge_new(seed[1], seed[2])
    /\ UNCHANGED << seed, plaintexts, ciphertext, proofVars, laneVars, phiVars >>

Encrypt ==
    /\ sponge # NoState
    /\ Len(plaintexts) < MaxBlocks
    /\ \E plaintext \in PlainWords :
          /\ sponge' = encrypt_state(sponge, plaintext)
          /\ ciphertext' = encrypt_output(sponge, plaintext)
          /\ plaintexts' = Append(plaintexts, plaintext)
    /\ UNCHANGED << seed, proofVars, laneVars, phiVars >>

InitSponge == Init

NextSponge == SpongeNew \/ Encrypt

SpecSponge == InitSponge /\ [][NextSponge]_vars

\* ------------------------------------------------------ hltm on its own
ApplyHltm ==
    /\ lane_out = NoWord
    /\ lane_out' = hltm(lane_in)
    /\ UNCHANGED << seed, lane_in, proofVars, spongeVars, phiVars >>

InitLane ==
    /\ seed = <<TestKey, TestIv>>
    /\ NoProofYet
    /\ NoSpongeYet
    /\ lane_in \in LaneInputs
    /\ lane_out = NoWord
    /\ NoPhi

NextLane == ApplyHltm

SpecLane == InitLane /\ [][NextLane]_vars

\* -------------------------------------------------- apply_phi on its own
ApplyPhi ==
    /\ phi_out = <<>>
    /\ phi_out' = <<apply_phi(phi_in[1]), apply_phi(phi_in[2])>>
    /\ UNCHANGED << seed, phi_in, proofVars, spongeVars, laneVars >>

InitPhi ==
    /\ seed = <<TestKey, TestIv>>
    /\ NoProofYet
    /\ NoSpongeYet
    /\ NoLane
    /\ phi_in \in PhiInputs \X PhiInputs
    /\ phi_out = <<>>

NextPhi == ApplyPhi

SpecPhi == InitPhi /\ [][NextPhi]_vars


\* ------------------------------------- the Merkle tree the design describes
\* The design's tree has 32 leaves and depth 5; the source names neither number.
MERKLE_LEAVES == 32
MERKLE_DEPTH == 5

\* recompute_root of the design: from the leaf towards the root, H(h || s) when
\* the running index is even and H(s || h) when it is odd, then the index halved.
\* The source has no such computation (verify_merkle_proof is a placeholder).
RECURSIVE recompute_from(_, _, _, _)
recompute_from(h, idx, path, k) ==
    IF k > Len(path) THEN h
    ELSE recompute_from(IF idx % 2 = 0 THEN Fract_hash(h \o path[k]) ELSE Fract_hash(path[k] \o h),
                        idx \div 2, path, k + 1)

recompute_root(leaf, idx, path) == recompute_from(leaf, idx, path, 1)

\* The leaves the prover builds for the seed at hand.
ProverLeaves == trace_leaves(generate_trace(State_new(seed)))

\* The proof at hand is the prover's, untouched.
Honest == proof # NoProof /\ edits = {}

\* The entries verify looks at: positions present in both lists.
Entries(p) ==
    { j \in 1..Len(p.revealed_steps) : j <= Len(p.merkle_proofs) }

RecomputedRoot(p, j) ==
    recompute_root(Fract_hash(serialize(p.revealed_steps[j][2])), p.revealed_steps[j][1],
                   p.merkle_proofs[j])

\* ------------------------------------------------------------ the claims

\* C1: completeness: the proof prove returns for the seed state
\* (iv0, iv1, key0, key1) is accepted by verify, for every key and iv tried.
C1_Completeness == (Honest /\ verdict # "none") => verdict = "true"

\* C1, its case: verify has run on an untouched proof of the key and iv of test.rs.
C1_Witness == Honest /\ verdict = "true" /\ seed = <<TestKey, TestIv>>

\* C2: commitment check: whenever, for some entry j, the root recomputed from
\* H(serialize(pre)), idx and paths[j] differs from the proof's root, verify
\* returns false.
C2_CommitmentCheck ==
    (verdict # "none" /\ \E j \in Entries(proof) : RecomputedRoot(proof, j) # proof.merkle_root)
        => verdict = "false"

\* C3: malformed lengths are rejected, not faulted: a proof whose revealed list or
\* whose paths list does not have exactly 4 entries makes verify return false.
C3_MalformedLengthsRejected ==
    (verdict # "none"
     /\ (Len(proof.revealed_steps) # NUM_CHALLENGES \/ Len(proof.merkle_proofs) # NUM_CHALLENGES))
        => verdict = "false"

\* C4: the proof prove returns carries exactly 4 Merkle paths, each of exactly 5
\* siblings, each validating against the root with leaf H(serialize(pre)) at idx.
C4_PathsOfProver ==
    Honest =>
        /\ Len(proof.merkle_proofs) = NUM_CHALLENGES
        /\ Len(proof.revealed_steps) = NUM_CHALLENGES
        /\ \A j \in Entries(proof) :
              /\ Len(proof.merkle_proofs[j]) = MERKLE_DEPTH
              /\ RecomputedRoot(proof, j) = proof.merkle_root

\* C5: the root prove commits to is the root of the perfect tree over 32 leaves
\* (the 17 trace leaves, then 15 leaves of 32 zero bytes), and no level of the
\* tree prove builds has an unpaired rightmost node.
C5_PerfectTree ==
    Honest =>
        /\ proof.merkle_root = build_merkle_root(Resize(ProverLeaves, MERKLE_LEAVES, ZeroHash))
        /\ Len(ProverLeaves) = MERKLE_LEAVES
        /\ \A l \in 1..Len(merkle_levels(ProverLeaves)) :
              \/ Len(merkle_levels(ProverLeaves)[l]) = 1
              \/ Len(merkle_levels(ProverLeaves)[l]) % 2 = 0

\* C6: Merkle round trip: for every leaf index i of the tree the prover builds,
\* recomputing the root from leaves[i], i and the path generated for i gives the
\* tree's root.
C6_MerkleRoundTrip ==
    Honest =>
        \A i \in 0..(Len(ProverLeaves) - 1) :
            recompute_root(ProverLeaves[i + 1], i, generate_merkle_proof(ProverLeaves, i))
                = build_merkle_root(ProverLeaves)

RECURSIVE DuplexFold(_, _)
DuplexFold(st, blocks) ==
    IF blocks = <<>> THEN st
    ELSE DuplexFold(Permute(<<WXor(st[1], Head(blocks)), st[2], st[3], st[4]>>, 8), Tail(blocks))

C8_DuplexSponge ==
    sponge # NoState =>
        /\ sponge = DuplexFold(<<seed[2][1], seed[2][2], seed[1][1], seed[1][2]>>, plaintexts)
        /\ plaintexts # <<>> => ciphertext = <<sponge[1], sponge[2]>>

\* C9: Phi is injective: two states with the same image under one application
\* of Phi are the same state.
C9_PhiInjective ==
    (phi_out # <<>> /\ phi_out[1] = phi_out[2]) => phi_in[1] = phi_in[2]

\* C10: positional index check: verify returns false for every proof in which
\* some revealed[j].idx differs from indices[j] = (j-th little-endian word of
\* H(root)) mod 16 at the same position j.
C10_PositionalIndexCheck ==
    (verdict # "none"
     /\ \E j \in 1..Len(proof.revealed_steps) :
           /\ j <= NUM_CHALLENGES
           /\ proof.revealed_steps[j][1]
                 # derive_indices(Fract_hash(proof.merkle_root), TRACE_LEN)[j])
        => verdict = "false"

\* C11: physics check: verify returns false for every proof in which some
\* revealed entry has post different from Phi(pre).
C11_PhysicsCheck ==
    (verdict # "none"
     /\ \E j \in 1..Len(proof.revealed_steps) :
           apply_phi(proof.revealed_steps[j][2]) # proof.revealed_steps[j][3])
        => verdict = "false"

\* The prover's proof for the seed with lane 0 of revealed[0].pre XOR-ed with 1
\* and every other field as prove returned it.
TamperedPre ==
    [prove(State_new(seed)) EXCEPT !.revealed_steps[1][2][1] = WXor(@, One)]

\* C12: commitment tamper: for every key and iv, the proof of prove with lane 0 of
\* revealed[0].pre XOR-ed with 1, all other fields unchanged, is a proof for
\* which verify returns false.
C12_PreTamperRejected ==
    (verdict # "none" /\ proof = TamperedPre) => verdict = "false"

\* C12, its case: verify has run on the tampered proof of the key and iv of
\* test.rs.
C12_Witness ==
    /\ proof = TamperedPre
    /\ verdict = "false"
    /\ seed = <<TestKey, TestIv>>

=============================================================================
